---- MODULE Spec2Model ----
(***************************************************************************)
(* A model of examples/mayaViewer/OpenSubdivShaderOverride.cpp: the        *)
(* Viewport 2.0 shader override (construction, initialize, updateDG, the   *)
(* attribute-changed callback, draw, destruction) and the plugin entry     *)
(* points (initializePlugin, uninitializePlugin).                          *)
(*                                                                         *)
(* OsdMeshData and OpenSubdivShader are declared in headers that are not   *)
(* part of the file; their methods are modelled from the design document   *)
(* and from the comments at their call sites.                              *)
(***************************************************************************)
EXTENDS Integers, Sequences, FiniteSets, TLC

\* ------------------------------------------------------------------ bounds
MaxData == 2        \* OsdMeshData objects ever allocated
MaxCallbacks == 2   \* attribute-changed callbacks ever registered
MaxLoads == 2       \* calls of initializePlugin

\* ------------------------------------------------------------- the domain
Mesh == {"meshA", "meshB"}          \* render items / shape nodes of the scene
DataId == 1..MaxData                \* addresses of OsdMeshData objects
NULL == 0
CbId == 1..MaxCallbacks             \* MCallbackId values
Levels == {1, 2}                    \* values of the shader's level attribute
Plugs == {"outMesh", "other"}       \* the plug a notification is about
Objects == {"kNullObj", "shaderNode", "otherNode"}   \* arguments of updateDG
SrcKinds == {"ok", "invalid", "nonmanifold"}

NoCb == [node |-> "none", data |-> NULL]
NoNote == [d |-> NULL, eval |-> FALSE, plug |-> "other"]
NoTopology == [kind |-> "none", level |-> 0]
NoPlan == [kind |-> "none", level |-> 0]

\* Sequences of distinct render items, in list order.
RenderLists ==
    {<<>>} \cup { <<m>> : m \in Mesh }
           \cup { l \in Mesh \X Mesh : l[1] # l[2] }

VARIABLES
    alive,        \* the override exists (constructed, not yet destroyed)
    shaderPtr,    \* _shader: "NULL" or "shader"
    callbackIds,  \* _callbackIds, in append order
    callbacks,    \* the host's registry: callback id -> [node, data]
    customData,   \* each render item's custom data: NULL or an OsdMeshData
    heap,         \* each OsdMeshData address: "unalloc", "live", "freed"
    dagPath,      \* OsdMeshData::getDagPath(), per object
    topoDirty,    \* OsdMeshData's topology-dirty flag, per object
    topology,     \* the HBR mesh (topology snapshot), per object
    plan,         \* the FAR mesh / draw context (refinement plan), per object
    buffers,      \* the refined device buffers: the plan they were made from
    src,          \* each mesh source: the kind of topology it holds now
    shLevel,      \* the level the shader object last read from its node
    pc,           \* the position of draw: "Idle" or a stage
    items,        \* the render item list of the current request
    idx,          \* the loop variable i of draw (1-based)
    ran,          \* the stages run for the current item, in order
    err,          \* the failures met for the current item in this request
    rebuilt,      \* the objects on which this request ran the rebuild check
    cleared,      \* the rebuild check of the current item cleared its dirty flag
    handed,       \* the objects this request handed to the shader's draw
    ret,          \* what the request returned: "none", "pending", "true", "false"
    crashed,      \* the process died on an invalid access
    note,         \* the notification the last step delivered, if any
    build,        \* the compute kernels compiled in
    ctrl,         \* g_*ComputeController: NULL or an allocation number
    objs,         \* every controller allocation: its kind and state
    clState,      \* g_clContext / g_clQueue: "none", "acquired", "released"
    registered,   \* what is registered with the host
    acquired,     \* backend resources in the order they were acquired
    released,     \* backend resources in the order they were released
    loads,        \* the number of initializePlugin calls so far
    unloads,      \* the number of uninitializePlugin calls so far
    initStatus    \* what the last initializePlugin returned, and why

overrideVars ==
    <<alive, shaderPtr, callbackIds, callbacks, customData, heap, dagPath,
      topoDirty, topology, plan, buffers, src, shLevel,
      pc, items, idx, ran, err, rebuilt, cleared, handed, ret, crashed,
      note>>

pluginVars ==
    <<build, ctrl, objs, clState, registered, acquired, released,
      loads, unloads, initStatus>>

vars == <<overrideVars, pluginVars>>

meshVars == <<topoDirty, topology, plan, buffers>>
frameVars == <<items, idx, ran, err, rebuilt, cleared, handed, ret>>
drawVars == <<pc, frameVars>>
cbVars == <<callbackIds, callbacks>>
dataVars == <<customData, heap, dagPath>>

\* ------------------------------------------------------------------- Init
\* Before the plugin is loaded every global controller pointer is 0 and
\* nothing is registered.
PluginNotLoaded ==
    /\ ctrl = [k \in {"cpu", "omp", "cuda", "cl"} |-> NULL]
    /\ objs = <<>>
    /\ clState = "none"
    /\ registered = {}
    /\ acquired = <<>>
    /\ released = <<>>
    /\ loads = 0
    /\ unloads = 0
    /\ initStatus = [status |-> "none", why |-> "none"]

\* No draw request is being served and none has returned yet.
NoFrame ==
    /\ items = <<>>
    /\ idx = 1
    /\ ran = <<>>
    /\ err = {}
    /\ rebuilt = {}
    /\ cleared = FALSE
    /\ handed = <<>>
    /\ ret = "none"

\* The state after OpenSubdivShaderOverride's constructor: _shader(NULL) and
\* an empty _callbackIds.
OverrideConstructed ==
    /\ alive = TRUE
    /\ shaderPtr = "NULL"
    /\ callbackIds = <<>>
    /\ callbacks = [c \in CbId |-> NoCb]
    /\ customData = [m \in Mesh |-> NULL]
    /\ heap = [d \in DataId |-> "unalloc"]
    /\ dagPath = [d \in DataId |-> "none"]
    /\ topoDirty = [d \in DataId |-> FALSE]
    /\ topology = [d \in DataId |-> NoTopology]
    /\ plan = [d \in DataId |-> NoPlan]
    /\ buffers = [d \in DataId |-> NoPlan]
    /\ src = [m \in Mesh |-> "ok"]
    /\ shLevel = 1
    /\ pc = "Idle"
    /\ NoFrame
    /\ crashed = FALSE
    /\ note = NoNote

Init ==
    /\ OverrideConstructed
    /\ build = [omp |-> FALSE, cuda |-> FALSE, cl |-> FALSE]
    /\ PluginNotLoaded

\* The record of the last request is dropped when the host moves on.
ForgetFrame ==
    /\ items' = <<>>
    /\ idx' = 1
    /\ ran' = <<>>
    /\ err' = {}
    /\ rebuilt' = {}
    /\ cleared' = FALSE
    /\ handed' = <<>>
    /\ ret' = "none"

\* ------------------------------------------------------------ the host
\* An edit of a mesh source on the host side, at any time: its topology
\* becomes well formed, malformed (an index out of range, a face of fewer
\* than three vertices) or non-manifold.
HostEditMesh(m, k) ==
    /\ ~crashed
    /\ src[m] # k
    /\ src' = [src EXCEPT ![m] = k]
    /\ IF pc = "Idle" THEN ForgetFrame ELSE UNCHANGED frameVars
    /\ note' = NoNote
    /\ UNCHANGED <<alive, shaderPtr, cbVars, dataVars, meshVars, shLevel,
                   pc, crashed, pluginVars>>

\* The host tears down a render item's custom data, between draw requests.
HostReleaseCustomData(m) ==
    /\ ~crashed
    /\ pc = "Idle"
    /\ customData[m] # NULL
    /\ LET d == customData[m] IN
        /\ heap' = [heap EXCEPT ![d] = "freed"]
        /\ customData' = [customData EXCEPT ![m] = NULL]
        /\ topoDirty' = [topoDirty EXCEPT ![d] = FALSE]
        /\ topology' = [topology EXCEPT ![d] = NoTopology]
        /\ plan' = [plan EXCEPT ![d] = NoPlan]
        /\ buffers' = [buffers EXCEPT ![d] = NoPlan]
    /\ ForgetFrame
    /\ note' = NoNote
    /\ UNCHANGED <<alive, shaderPtr, cbVars, dagPath, src, shLevel, pc,
                   crashed, pluginVars>>

\* ------------------------------------------------------ the destructor
\* MMessage::removeCallbacks(_callbackIds)
OverrideDtor ==
    /\ ~crashed
    /\ alive
    /\ pc = "Idle"
    /\ alive' = FALSE
    /\ callbacks' = [c \in CbId |->
                        IF \E i \in 1..Len(callbackIds) : callbackIds[i] = c
                        THEN NoCb ELSE callbacks[c]]
    /\ callbackIds' = <<>>
    /\ ForgetFrame
    /\ note' = NoNote
    /\ UNCHANGED <<shaderPtr, dataVars, meshVars, src, shLevel, pc, crashed,
                   pluginVars>>

\* ------------------------------------------------------ attrChangedCB
\* The test without its second half: any evaluated plug marks the mesh.
MarksDirty_AnyPlug(eval, plug) == eval

\* The test of the callback: msg & kAttributeEval, then plug == outMesh.
MarksDirty(eval, plug) == eval /\ plug = "outMesh"

\* A callback that, besides setting the flag, throws the topology away.
attrChangedCB_DropsTopology(c, eval, plug) ==
    /\ ~crashed
    /\ callbacks[c] # NoCb
    /\ LET d == callbacks[c].data IN
        /\ IF eval /\ heap[d] = "live" /\ plug = "outMesh"
           THEN /\ topoDirty' = [topoDirty EXCEPT ![d] = TRUE]
                /\ topology' = [topology EXCEPT ![d] = NoTopology]
                /\ UNCHANGED <<plan, buffers, crashed>>
           ELSE UNCHANGED <<meshVars, crashed>>
    /\ UNCHANGED <<alive, shaderPtr, cbVars, dataVars, src, shLevel,
                   drawVars, pluginVars>>

\* The callback, run by the host for a registered id at any time.
\* Without kAttributeEval the callback returns at once. With it the callback
\* reads clientData: on an OsdMeshData that was already released that is an
\* invalid access, which kills the process or goes unnoticed.
attrChangedCB(c, eval, plug) ==
    /\ ~crashed
    /\ callbacks[c] # NoCb
    /\ LET d == callbacks[c].data IN
        /\ IF ~eval
           THEN UNCHANGED <<meshVars, crashed>>
           ELSE IF heap[d] # "live"
           THEN /\ crashed' \in BOOLEAN
                /\ UNCHANGED meshVars
           ELSE /\ topoDirty' = [topoDirty EXCEPT ![d] =
                                    topoDirty[d] \/ MarksDirty(eval, plug)]
                /\ UNCHANGED <<topology, plan, buffers, crashed>>
    /\ UNCHANGED <<alive, shaderPtr, cbVars, dataVars, src, shLevel,
                   drawVars, pluginVars>>

\* ------------------------------------------------------------ initialize
FreeData == { d \in DataId : heap[d] = "unalloc" }
UsedCb == { c \in CbId : \/ callbacks[c] # NoCb
                          \/ \E i \in 1..Len(callbackIds) : callbackIds[i] = c }
Min(S) == CHOOSE x \in S : \A y \in S : x <= y

\* A registration that succeeds without its id being kept.
addTopologyChangedCallbacks_DropsId(m, d, ok) ==
    IF ok
    THEN /\ CbId \ UsedCb # {}
         /\ callbacks' = [callbacks EXCEPT ![Min(CbId \ UsedCb)] =
                             [node |-> m, data |-> d]]
         /\ UNCHANGED callbackIds
    ELSE UNCHANGED cbVars

\* addTopologyChangedCallbacks: one addAttributeChangedCallback on the shape
\* node with the mesh data as client data; the id is kept only on success.
addTopologyChangedCallbacks(m, d, ok) ==
    IF ok
    THEN /\ CbId \ UsedCb # {}
         /\ callbacks' = [callbacks EXCEPT ![Min(CbId \ UsedCb)] =
                             [node |-> m, data |-> d]]
         /\ callbackIds' = Append(callbackIds, Min(CbId \ UsedCb))
    ELSE UNCHANGED cbVars

\* An initialize that makes a new OsdMeshData whatever the feedback holds.
initialize_AlwaysNew(m, ok) ==
    /\ ~crashed
    /\ alive
    /\ pc = "Idle"
    /\ FreeData # {}
    /\ LET d == Min(FreeData) IN
        /\ heap' = [heap EXCEPT ![d] = "live"]
        /\ dagPath' = [dagPath EXCEPT ![d] = m]
        /\ customData' = [customData EXCEPT ![m] = d]
        /\ addTopologyChangedCallbacks(m, d, ok)
    /\ ForgetFrame
    /\ note' = NoNote
    /\ UNCHANGED <<alive, shaderPtr, meshVars, src, shLevel, pc, crashed,
                   pluginVars>>

\* initialize(initContext, initFeedback) for the render item m, whose
\* initFeedback.customData is the item's current custom data.
initialize(m, ok) ==
    /\ ~crashed
    /\ alive
    /\ pc = "Idle"
    /\ IF customData[m] = NULL
       THEN /\ FreeData # {}
            /\ LET d == Min(FreeData) IN
                /\ heap' = [heap EXCEPT ![d] = "live"]
                /\ dagPath' = [dagPath EXCEPT ![d] = m]
                /\ customData' = [customData EXCEPT ![m] = d]
                /\ addTopologyChangedCallbacks(m, d, ok)
       ELSE /\ UNCHANGED dataVars
            /\ addTopologyChangedCallbacks(m, customData[m], ok)
    /\ ForgetFrame
    /\ note' = NoNote
    /\ UNCHANGED <<alive, shaderPtr, meshVars, src, shLevel, pc, crashed,
                   pluginVars>>

\* -------------------------------------------------------------- updateDG
getHwShaderNodePtr(object) == IF object = "shaderNode" THEN "shader" ELSE "NULL"

\* An updateDG without the test for the null object.
updateDG_NoNullTest(object, level) ==
    /\ ~crashed
    /\ alive
    /\ pc = "Idle"
    /\ shaderPtr' = getHwShaderNodePtr(object)
    /\ IF getHwShaderNodePtr(object) # "NULL"
       THEN shLevel' = level
       ELSE UNCHANGED shLevel
    /\ ForgetFrame
    /\ note' = NoNote
    /\ UNCHANGED <<alive, cbVars, dataVars, meshVars, src, pc, crashed,
                   pluginVars>>

\* updateDG(object); level is the value _shader->updateAttributes() reads
\* from the shader node.
updateDG(object, level) ==
    /\ ~crashed
    /\ alive
    /\ pc = "Idle"
    /\ IF object = "kNullObj"
       THEN UNCHANGED <<shaderPtr, shLevel>>
       ELSE /\ shaderPtr' = getHwShaderNodePtr(object)
            /\ IF getHwShaderNodePtr(object) # "NULL"
               THEN shLevel' = level
               ELSE UNCHANGED shLevel
    /\ ForgetFrame
    /\ note' = NoNote
    /\ UNCHANGED <<alive, cbVars, dataVars, meshVars, src, pc, crashed,
                   pluginVars>>

\* ------------------------------------------------------------------ draw
\* The loop body of draw is straight-line code: rebuildHbrMeshIfNeeded,
\* prepare, updateGeometry, _shader->draw, then the next item.
\* The loop body with the call of prepare left out.
StageAfter_SkipsPrepare(stage) ==
    CASE stage = "TopologyCheck" -> "Refine"
      [] stage = "PlanCheck" -> "Refine"
      [] stage = "Refine" -> "Draw"
      [] stage = "Draw" -> "Fetch"

StageAfter(stage) ==
    CASE stage = "TopologyCheck" -> "PlanCheck"
      [] stage = "PlanCheck" -> "Refine"
      [] stage = "Refine" -> "Draw"
      [] stage = "Draw" -> "Fetch"

\* The OsdMeshData of the item the loop is at.
CurData == customData[items[idx]]

\* A draw request arrives with its render item list.
draw_Begin(list) ==
    /\ ~crashed
    /\ alive
    /\ pc = "Idle"
    /\ items' = list
    /\ idx' = 1
    /\ pc' = "Fetch"
    /\ ran' = <<>>
    /\ err' = {}
    /\ rebuilt' = {}
    /\ cleared' = FALSE
    /\ handed' = <<>>
    /\ ret' = "pending"
    /\ note' = NoNote
    /\ UNCHANGED <<alive, shaderPtr, cbVars, dataVars, meshVars, src,
                   shLevel, crashed, pluginVars>>

\* A loop that passes over an item without custom data and goes on.
draw_Fetch_SkipsNull ==
    /\ ~crashed
    /\ pc = "Fetch"
    /\ IF idx > Len(items)
       THEN /\ ret' = "true"
            /\ pc' = "Idle"
            /\ UNCHANGED idx
       ELSE IF CurData = NULL
       THEN /\ idx' = idx + 1
            /\ UNCHANGED <<ret, pc>>
       ELSE /\ pc' = "TopologyCheck"
            /\ UNCHANGED <<ret, idx>>
    /\ ran' = <<>>
    /\ err' = {}
    /\ cleared' = FALSE
    /\ note' = NoNote
    /\ UNCHANGED <<alive, shaderPtr, cbVars, dataVars, meshVars, src,
                   shLevel, items, rebuilt, handed, crashed, pluginVars>>

\* for (i < renderItemList.length()) { if (data == NULL) return false; ... }
\* return true;
draw_Fetch ==
    /\ ~crashed
    /\ pc = "Fetch"
    /\ IF idx > Len(items)
       THEN /\ ret' = "true"
            /\ pc' = "Idle"
       ELSE IF CurData = NULL
       THEN /\ ret' = "false"
            /\ pc' = "Idle"
       ELSE /\ pc' = "TopologyCheck"
            /\ UNCHANGED ret
    /\ ran' = <<>>
    /\ err' = {}
    /\ cleared' = FALSE
    /\ note' = NoNote
    /\ UNCHANGED <<alive, shaderPtr, cbVars, dataVars, meshVars, src,
                   shLevel, items, idx, rebuilt, handed, crashed,
                   pluginVars>>

\* OsdMeshData::rebuildHbrMeshIfNeeded(shader), with the level read from the
\* shader: nothing to do when the flag is unset, a topology exists and the
\* attributes it was built with are unchanged. Otherwise the mesh source is
\* read: a malformed one fails with InvalidTopology and keeps everything; a
\* good one is copied, the flag is cleared and the plan is invalidated.
rebuildHbrMeshIfNeeded(d, level) ==
    IF ~topoDirty[d] /\ topology[d] # NoTopology /\ topology[d].level = level
    THEN UNCHANGED <<meshVars, err>>
    ELSE IF src[dagPath[d]] = "invalid"
    THEN /\ err' = err \cup {"InvalidTopology"}
         /\ UNCHANGED meshVars
    ELSE /\ topology' = [topology EXCEPT ![d] =
                            [kind |-> src[dagPath[d]], level |-> level]]
         /\ topoDirty' = [topoDirty EXCEPT ![d] = FALSE]
         /\ plan' = [plan EXCEPT ![d] = NoPlan]
         /\ UNCHANGED <<buffers, err>>

\* The loop body with the call of rebuildHbrMeshIfNeeded left out.
draw_rebuildHbrMeshIfNeeded_Skipped ==
    /\ ~crashed
    /\ pc = "TopologyCheck"
    /\ pc' = StageAfter("TopologyCheck")
    /\ ran' = Append(ran, "TopologyCheck")
    /\ note' = NoNote
    /\ UNCHANGED <<alive, shaderPtr, cbVars, dataVars, meshVars, src, shLevel,
                   items, idx, err, rebuilt, cleared, handed, ret, crashed,
                   pluginVars>>

\* A rebuild check that takes no notice of the shader's attributes: it
\* passes the level the topology already has.
draw_rebuildHbrMeshIfNeeded_IgnoresShader ==
    /\ ~crashed
    /\ pc = "TopologyCheck"
    /\ rebuildHbrMeshIfNeeded(CurData,
            IF topology[CurData] # NoTopology
            THEN topology[CurData].level ELSE shLevel)
    /\ rebuilt' = rebuilt \cup {CurData}
    /\ cleared' = (topoDirty[CurData] /\ ~topoDirty'[CurData])
    /\ pc' = StageAfter("TopologyCheck")
    /\ ran' = Append(ran, "TopologyCheck")
    /\ note' = NoNote
    /\ UNCHANGED <<alive, shaderPtr, cbVars, dataVars, src, shLevel,
                   items, idx, handed, ret, crashed, pluginVars>>

\* data->rebuildHbrMeshIfNeeded(_shader). A null _shader is dereferenced by
\* the callee: the process dies, or the read yields some level.
draw_rebuildHbrMeshIfNeeded ==
    /\ ~crashed
    /\ pc = "TopologyCheck"
    /\ \/ /\ shaderPtr # "NULL"
          /\ rebuildHbrMeshIfNeeded(CurData, shLevel)
          /\ rebuilt' = rebuilt \cup {CurData}
          /\ cleared' = (topoDirty[CurData] /\ ~topoDirty'[CurData])
          /\ pc' = StageAfter("TopologyCheck")
          /\ ran' = Append(ran, "TopologyCheck")
          /\ UNCHANGED crashed
       \/ /\ shaderPtr = "NULL"
          /\ \E l \in Levels : rebuildHbrMeshIfNeeded(CurData, l)
          /\ rebuilt' = rebuilt \cup {CurData}
          /\ cleared' = (topoDirty[CurData] /\ ~topoDirty'[CurData])
          /\ pc' = StageAfter("TopologyCheck")
          /\ ran' = Append(ran, "TopologyCheck")
          /\ UNCHANGED crashed
       \/ /\ shaderPtr = "NULL"
          /\ crashed' = TRUE
          /\ UNCHANGED <<meshVars, err, rebuilt, cleared, pc, ran>>
    /\ note' = NoNote
    /\ UNCHANGED <<alive, shaderPtr, cbVars, dataVars, src, shLevel,
                   items, idx, handed, ret, pluginVars>>

\* OsdMeshData::prepare(): "If HBR mesh was regenerated, rebuild FAR mesh
\* factory and recreate OSD draw context". A non-manifold topology fails
\* with UnsupportedTopology and leaves no plan.
prepare(d) ==
    IF topology[d] = NoTopology \/ plan[d] # NoPlan
    THEN UNCHANGED <<meshVars, err>>
    ELSE IF topology[d].kind = "nonmanifold"
    THEN /\ err' = err \cup {"UnsupportedTopology"}
         /\ UNCHANGED meshVars
    ELSE /\ plan' = [plan EXCEPT ![d] = topology[d]]
         /\ UNCHANGED <<topoDirty, topology, buffers, err>>

\* data->prepare()
draw_prepare ==
    /\ ~crashed
    /\ pc = "PlanCheck"
    /\ prepare(CurData)
    /\ pc' = StageAfter("PlanCheck")
    /\ ran' = Append(ran, "PlanCheck")
    /\ note' = NoNote
    /\ UNCHANGED <<alive, shaderPtr, cbVars, dataVars, src, shLevel,
                   items, idx, rebuilt, cleared, handed, ret, crashed,
                   pluginVars>>

\* OsdMeshData::updateGeometry(position): runs the compute backend on the
\* current plan and writes the device buffers; a ComputeFailure leaves the
\* buffers of the last good frame. Without a plan or without an osdPosition
\* vertex buffer there is nothing to refine.
updateGeometry(d, position, ok) ==
    IF plan[d] = NoPlan \/ ~position
    THEN UNCHANGED <<meshVars, err>>
    ELSE IF ~ok
    THEN /\ err' = err \cup {"ComputeFailure"}
         /\ UNCHANGED meshVars
    ELSE /\ buffers' = [buffers EXCEPT ![d] = plan[d]]
         /\ UNCHANGED <<topoDirty, topology, plan, err>>

\* The scan of the geometry's vertex buffers for "osdPosition", then
\* data->updateGeometry(position)
draw_updateGeometry(position, ok) ==
    /\ ~crashed
    /\ pc = "Refine"
    /\ updateGeometry(CurData, position, ok)
    /\ pc' = StageAfter("Refine")
    /\ ran' = Append(ran, "Refine")
    /\ note' = NoNote
    /\ UNCHANGED <<alive, shaderPtr, cbVars, dataVars, src, shLevel,
                   items, idx, rebuilt, cleared, handed, ret, crashed,
                   pluginVars>>

\* _shader->draw(context, data): the hand-off to the drawing stage, whatever
\* the earlier calls did. A null _shader is an invalid access: the process
\* dies, or the call goes through.
draw_shaderDraw ==
    /\ ~crashed
    /\ pc = "Draw"
    /\ \/ /\ handed' = Append(handed, CurData)
          /\ idx' = idx + 1
          /\ pc' = StageAfter("Draw")
          /\ UNCHANGED crashed
       \/ /\ shaderPtr = "NULL"
          /\ crashed' = TRUE
          /\ UNCHANGED <<handed, idx, pc>>
    /\ note' = NoNote
    /\ UNCHANGED <<alive, shaderPtr, cbVars, dataVars, meshVars, src,
                   shLevel, items, ran, err, rebuilt, cleared, ret, pluginVars>>

\* The host delivers a notification to a registered callback; the life-cycle
\* specification keeps a record of the delivery, the frame specification
\* does not.
HostNotifies(c, eval, plug) ==
    /\ attrChangedCB(c, eval, plug)
    /\ note' = [d |-> callbacks[c].data, eval |-> eval, plug |-> plug]

HostNotifiesInFrame(c, eval, plug) ==
    /\ attrChangedCB(c, eval, plug)
    /\ UNCHANGED note

\* -------------------------------------------------------- specifications
\* The override's life: initialize calls, notifications, the host's release
\* of custom data, the destructor.
LifecycleNext ==
    \/ \E m \in Mesh : HostReleaseCustomData(m)
    \/ OverrideDtor
    \/ \E c \in CbId, eval \in BOOLEAN, plug \in Plugs : HostNotifies(c, eval, plug)
    \/ \E m \in Mesh, ok \in BOOLEAN : initialize(m, ok)
    \/ \E object \in Objects : updateDG(object, 1)

LifecycleSpec == Init /\ [][LifecycleNext]_vars

\* The frame path. It starts after the host has initialized the override
\* for meshA (mesh data 1, callback 1) and perhaps for meshB (mesh data 2,
\* callback 2): meshB's render item may still be without custom data. The
\* shader pointer is the constructor's NULL or was saved by an updateDG.
DrawInit ==
    /\ alive = TRUE
    /\ shaderPtr \in {"NULL", "shader"}
    /\ \E both \in BOOLEAN :
        /\ callbackIds = IF both THEN <<1, 2>> ELSE <<1>>
        /\ callbacks = [c \in CbId |->
                           CASE c = 1 -> [node |-> "meshA", data |-> 1]
                             [] c = 2 /\ both -> [node |-> "meshB", data |-> 2]
                             [] OTHER -> NoCb]
        /\ customData = [m \in Mesh |->
                           CASE m = "meshA" -> 1
                             [] m = "meshB" /\ both -> 2
                             [] OTHER -> NULL]
        /\ heap = [d \in DataId |->
                           IF d = 1 \/ (d = 2 /\ both) THEN "live" ELSE "unalloc"]
        /\ dagPath = [d \in DataId |->
                           CASE d = 1 -> "meshA"
                             [] d = 2 /\ both -> "meshB"
                             [] OTHER -> "none"]
    /\ topoDirty = [d \in DataId |-> FALSE]
    /\ topology = [d \in DataId |-> NoTopology]
    /\ plan = [d \in DataId |-> NoPlan]
    /\ buffers = [d \in DataId |-> NoPlan]
    /\ src = [m \in Mesh |-> "ok"]
    /\ shLevel = 1
    /\ pc = "Idle"
    /\ NoFrame
    /\ crashed = FALSE
    /\ note = NoNote
    /\ build = [omp |-> FALSE, cuda |-> FALSE, cl |-> FALSE]
    /\ PluginNotLoaded

DrawNext ==
    \/ \E m \in Mesh, k \in SrcKinds : HostEditMesh(m, k)
    \/ \E c \in CbId, eval \in BOOLEAN, plug \in Plugs : HostNotifiesInFrame(c, eval, plug)
    \/ \E object \in Objects : updateDG(object, 1)
    \/ \E list \in RenderLists : draw_Begin(list)
    \/ draw_Fetch
    \/ draw_rebuildHbrMeshIfNeeded
    \/ draw_prepare
    \/ \E position \in BOOLEAN, ok \in BOOLEAN : draw_updateGeometry(position, ok)
    \/ draw_shaderDraw

DrawSpec == DrawInit /\ [][DrawNext]_vars

\* ------------------------------------------------- plugin registration
Kernels == <<"cpu", "omp", "cuda", "cl">>

\* Whether a kernel's controller is compiled in (the #ifdef blocks).
HasKernel(b, k) ==
    CASE k = "cpu" -> TRUE
      [] k = "omp" -> b.omp
      [] k = "cuda" -> b.cuda
      [] k = "cl" -> b.cl

\* The order in which uninitializePlugin deletes the controllers.
DeleteOrder == <<"cpu", "omp", "cuda", "cl">>

RECURSIVE Reverse(_)
Reverse(q) == IF q = <<>> THEN <<>> ELSE Append(Reverse(Tail(q)), Head(q))

\* A load that selects one backend, the CPU one, and creates no other.
NewKernels_CpuOnly(b, clOk, i) == <<"cpu">>

\* The controllers initializePlugin allocates, in statement order, up to and
\* without the OpenCL one when initCL fails.
RECURSIVE NewKernels(_, _, _)
NewKernels(b, clOk, i) ==
    IF i > Len(Kernels) THEN <<>>
    ELSE IF ~HasKernel(b, Kernels[i]) THEN NewKernels(b, clOk, i + 1)
    ELSE IF Kernels[i] = "cl" /\ ~clOk THEN <<>>
    ELSE <<Kernels[i]>> \o NewKernels(b, clOk, i + 1)

\* Backend resources in acquisition order: each controller, and before the
\* OpenCL controller the context and queue that initCL creates.
RECURSIVE Acquisitions(_)
Acquisitions(ks) ==
    IF ks = <<>> THEN <<>>
    ELSE (IF Head(ks) = "cl" THEN <<"clContext", "cl">> ELSE <<Head(ks)>>)
         \o Acquisitions(Tail(ks))

\* The position of kernel k in the sequence ks, 0 when it is not there.
PosIn(ks, k) ==
    IF \E i \in 1..Len(ks) : ks[i] = k
    THEN CHOOSE i \in 1..Len(ks) : ks[i] = k
    ELSE 0

\* initializePlugin: allocates a controller per compiled-in kernel, returns
\* kFailure at once when initCL fails, then registers the shader node, the
\* vertex buffer generator and the shader override creator, and returns the
\* status of the last registration.
initializePlugin(clOk, nodeOk, vbOk, ovrOk) ==
    /\ loads < MaxLoads
    /\ loads' = loads + 1
    /\ LET ks == NewKernels(build, clOk, 1)
           failed == build.cl /\ ~clOk
       IN
        /\ objs' = objs \o [i \in 1..Len(ks) |-> [kind |-> ks[i], state |-> "live"]]
        /\ ctrl' = [k \in DOMAIN ctrl |->
                      IF PosIn(ks, k) # 0 THEN Len(objs) + PosIn(ks, k) ELSE ctrl[k]]
        /\ clState' = IF build.cl /\ clOk THEN "acquired" ELSE clState
        /\ acquired' = Acquisitions(ks)
        /\ released' = <<>>
        /\ IF failed
           THEN /\ initStatus' = [status |-> "kFailure", why |-> "OpenCL"]
                /\ UNCHANGED registered
           ELSE /\ registered' = registered
                       \cup (IF nodeOk /\ "node" \notin registered THEN {"node"} ELSE {})
                       \cup (IF vbOk /\ "vbgen" \notin registered THEN {"vbgen"} ELSE {})
                       \cup (IF ovrOk /\ "override" \notin registered
                             THEN {"override"} ELSE {})
                /\ initStatus' =
                       IF ovrOk /\ "override" \notin registered
                       THEN [status |-> "kSuccess", why |-> "none"]
                       ELSE [status |-> "kFailure", why |-> "registration"]
    /\ UNCHANGED <<build, unloads, overrideVars>>

\* delete on each controller pointer in turn: nothing for a null pointer; a
\* pointer that was already deleted is deleted again.
RECURSIVE DeleteAll(_, _)
DeleteAll(os, ks) ==
    IF ks = <<>> THEN os
    ELSE LET p == ctrl[Head(ks)] IN
         DeleteAll(IF p = NULL \/ ~HasKernel(build, Head(ks)) THEN os
                   ELSE [os EXCEPT ![p].state =
                            IF @ = "live" THEN "deleted" ELSE "deletedTwice"],
                   Tail(ks))

RECURSIVE DeletedKinds(_)
DeletedKinds(ks) ==
    IF ks = <<>> THEN <<>>
    ELSE (IF ctrl[Head(ks)] = NULL \/ ~HasKernel(build, Head(ks))
          THEN <<>> ELSE <<Head(ks)>>)
         \o DeletedKinds(Tail(ks))

\* uninitializePlugin: deregisters the three registrations and deletes the
\* controllers; the pointers keep their values.
uninitializePlugin ==
    /\ unloads < MaxLoads
    /\ unloads' = unloads + 1
    /\ registered' = {}
    /\ objs' = DeleteAll(objs, DeleteOrder)
    /\ released' = released \o DeletedKinds(DeleteOrder)
    /\ initStatus' = [status |-> "unloaded", why |-> "none"]
    /\ UNCHANGED <<build, ctrl, clState, acquired, loads, overrideVars>>

\* The plugin's life under every combination of compiled-in kernels.
PluginInit ==
    /\ OverrideConstructed
    /\ build \in [omp : BOOLEAN, cuda : BOOLEAN, cl : BOOLEAN]
    /\ PluginNotLoaded

PluginNext ==
    \/ \E clOk \in BOOLEAN, nodeOk \in BOOLEAN, vbOk \in BOOLEAN, ovrOk \in BOOLEAN :
          initializePlugin(clOk, nodeOk, vbOk, ovrOk)
    \/ uninitializePlugin

PluginSpec == PluginInit /\ [][PluginNext]_vars

\* ================================================================ claims

\* C1: no change notification can fire after teardown: a subscription never
\* outlives the OsdMeshData that is its client data, so no registered
\* callback points at a released object and no delivered notification finds
\* its client data released.
C1_NoNotificationAfterTeardown ==
    /\ \A c \in CbId : callbacks[c] # NoCb => heap[callbacks[c].data] = "live"
    /\ note.d # NULL => heap[note.d] = "live"

\* C2, as claimed: every notification delivered to the callback leaves a
\* dirty flag set on its mesh data, whatever its message kind and plug.
C2_EveryNotificationMarksDirty ==
    (note.d # NULL /\ heap[note.d] = "live") => topoDirty[note.d]

\* C2, amended: a delivered notification sets the topology-dirty flag of the
\* live mesh data it was registered with exactly when its message kind
\* includes kAttributeEval and its plug is outMesh; any other notification
\* changes no flag at all.
C2_MarksDirtyOnlyOnEvalOfOutMesh ==
    [][ (note'.d # NULL) =>
          topoDirty' =
             IF note'.eval /\ note'.plug = "outMesh" /\ heap[note'.d] = "live"
             THEN [topoDirty EXCEPT ![note'.d] = TRUE]
             ELSE topoDirty ]_vars

\* C2's case: an evaluation of outMesh was delivered and the flag is set.
C2_Witness ==
    /\ note.d # NULL
    /\ note.eval
    /\ note.plug = "outMesh"
    /\ topoDirty[note.d]

\* The stages of the loop body of draw.
Stages == {"TopologyCheck", "PlanCheck", "Refine", "Draw"}

\* C3: the notification path only sets flags. Topology, plan and buffers
\* change only in a step of a stage of draw; and a flag changes either in the
\* rebuild check of draw or in a step that sets the flag of the client data
\* of a registered callback and changes nothing else, neither the caches nor
\* the state of the draw request in progress.
C3_NotificationOnlySetsFlag ==
    [][ /\ (topology' # topology \/ plan' # plan \/ buffers' # buffers) =>
              (pc \in Stages /\ pc' = StageAfter(pc))
        /\ (topoDirty' # topoDirty) =>
              \/ pc = "TopologyCheck" /\ pc' = StageAfter(pc)
              \/ \E c \in CbId :
                    /\ callbacks[c] # NoCb
                    /\ topoDirty' = [topoDirty EXCEPT ![callbacks[c].data] = TRUE]
                    /\ UNCHANGED <<topology, plan, buffers, drawVars, customData,
                                   shaderPtr, src>> ]_vars

\* C3's case: a notification arrived while a draw request was in progress.
\* The flag of the current item is set right after its rebuild check ran
\* without a failure, which leaves it unset.
C3_Witness ==
    /\ pc = "PlanCheck"
    /\ ~crashed
    /\ shaderPtr = "shader"
    /\ "InvalidTopology" \notin err
    /\ topoDirty[CurData]
    /\ topology[CurData] # NoTopology

C5_StagesRunInOrder ==
    /\ pc = "TopologyCheck" => ran = <<>>
    /\ pc = "PlanCheck" => ran = <<"TopologyCheck">>
    /\ pc = "Refine" => ran = <<"TopologyCheck", "PlanCheck">>
    /\ pc = "Draw" => ran = <<"TopologyCheck", "PlanCheck", "Refine">>
    /\ pc # "Idle" => (ret = "pending" /\ Len(handed) = idx - 1)
    /\ ret \in {"true", "false"} => pc = "Idle"
    /\ pc = "Idle" => ret # "pending"

\* C5's case: the second item of a request is at the Draw stage.
C5_Witness ==
    /\ pc = "Draw"
    /\ idx = 2
    /\ Len(handed) = 1
    /\ ~crashed

\* C6: when the topology rebuild fails with InvalidTopology or the plan
\* build fails with UnsupportedTopology, nothing is handed to the draw stage
\* for that item in that frame. (The state right after a hand-off still
\* holds the failures of the item handed over.)
C6_FailedRebuildSkipsDraw ==
    (shaderPtr = "shader" /\ pc = "Fetch" /\ idx > 1) =>
        err \cap {"InvalidTopology", "UnsupportedTopology"} = {}

\* C7: when the refine step fails with ComputeFailure and no buffers were
\* ever produced, the draw is skipped: whatever is handed to the draw stage
\* after a ComputeFailure has buffers of an earlier good frame.
C7_ComputeFailureWithoutBuffersSkipsDraw ==
    (shaderPtr = "shader" /\ pc = "Fetch" /\ idx > 1 /\ "ComputeFailure" \in err) =>
        buffers[handed[Len(handed)]] # NoPlan

\* The mesh data of the items of a list that have any, in list order.
RECURSIVE ReadyData(_)
ReadyData(list) ==
    IF list = <<>> THEN <<>>
    ELSE (IF customData[Head(list)] = NULL THEN <<>> ELSE <<customData[Head(list)]>>)
         \o ReadyData(Tail(list))

\* C8: a render item without custom data is no error: the request reports
\* no failure, and the other items of the list are handed to the draw stage
\* as if the unready item were absent.
C8_UnreadyItemIsNoError ==
    (shaderPtr = "shader" /\ pc = "Idle" /\ ret # "none") =>
        /\ ret = "true"
        /\ handed = ReadyData(items)

\* C9: startup fails for want of a backend only if every backend is
\* unavailable: when initializePlugin returns kFailure because OpenCL could
\* not be initialised, no other controller is available to fall back to.
C9_StartupFailsOnlyWithoutAnyBackend ==
    (initStatus.status = "kFailure" /\ initStatus.why = "OpenCL") =>
        \A k \in DOMAIN ctrl : ctrl[k] = NULL \/ objs[ctrl[k]].state # "live"

\* C10: after shutdown the backend resources the load acquired have been
\* released in the reverse of the order of their acquisition, each once.
C10_ReleasedInReverseOrder ==
    (initStatus.status = "unloaded" /\ loads = 1 /\ unloads = 1) =>
        released = Reverse(acquired)

\* The three registrations initializePlugin makes.
Registrations == {"node", "vbgen", "override"}

\* C11: every startup failure makes initializePlugin return a failure status
\* and a failed initialisation leaves nothing registered. After the first
\* load, a success status means all three registrations were made, and a
\* failure status means none is left.
C11_FailureReportedAndNothingLeft ==
    (loads = 1 /\ unloads = 0) =>
        /\ initStatus.status = "kSuccess" => registered = Registrations
        /\ initStatus.status = "kFailure" => registered = {}

\* ------------------------------------------------------------ a session
\* A session of the plugin: it is loaded once, at process start; the host
\* then initializes the override for meshA, hands it the shader node, and
\* sends draw requests and notifications. Nothing of the override runs
\* before the load has registered the override creator.
Loaded == "override" \in registered

LoadAtStart(clOk, nodeOk, vbOk, ovrOk) ==
    /\ loads = 0
    /\ initializePlugin(clOk, nodeOk, vbOk, ovrOk)

SessionNext ==
    \/ \E clOk \in BOOLEAN, nodeOk \in BOOLEAN, vbOk \in BOOLEAN, ovrOk \in BOOLEAN :
          LoadAtStart(clOk, nodeOk, vbOk, ovrOk)
    \/ Loaded /\ initialize("meshA", TRUE)
    \/ Loaded /\ updateDG("shaderNode", 1)
    \/ Loaded /\ \E c \in CbId : HostNotifiesInFrame(c, TRUE, "outMesh")
    \/ Loaded /\ draw_Begin(<<"meshA">>)
    \/ Loaded /\ draw_Fetch
    \/ Loaded /\ draw_rebuildHbrMeshIfNeeded
    \/ Loaded /\ draw_prepare
    \/ Loaded /\ \E position \in BOOLEAN, ok \in BOOLEAN : draw_updateGeometry(position, ok)
    \/ Loaded /\ draw_shaderDraw

SessionSpec == PluginInit /\ [][SessionNext]_vars

\* The kernels that have a controller now.
LiveControllers ==
    { k \in DOMAIN ctrl : ctrl[k] # NULL /\ objs[ctrl[k]].state = "live" }

\* C12, as claimed: exactly one compute backend instance is selected at
\* process start: after a successful load one controller exists.
C12_ExactlyOneBackendSelected ==
    (loads = 1 /\ initStatus.status = "kSuccess") => Cardinality(LiveControllers) = 1

\* C12, amended: a successful load creates one controller for every
\* compiled-in kernel and for no other, and after the load no step of a
\* session (no draw request, no notification, no initialize, no updateDG)
\* changes a controller pointer or a controller.
C12_ControllersFixedAfterLoad ==
    [][ /\ loads = 1 => UNCHANGED <<ctrl, objs>>
        /\ (loads = 1 /\ initStatus.status = "kSuccess") =>
              \A k \in DOMAIN ctrl :
                 IF HasKernel(build, k)
                 THEN ctrl[k] # NULL /\ objs[ctrl[k]] = [kind |-> k, state |-> "live"]
                 ELSE ctrl[k] = NULL ]_vars

\* C12's case: a build with OpenMP and CUDA was loaded, both controllers
\* exist beside the CPU one, and a draw request has handed meshA over.
C12_Witness ==
    /\ loads = 1
    /\ build.omp /\ build.cuda
    /\ {"cpu", "omp", "cuda"} \subseteq LiveControllers
    /\ ret = "true"
    /\ Len(handed) = 1
    /\ shaderPtr = "shader"

\* ------------------------------------------------ the shader's attributes
\* One mesh and a shader node whose level attribute changes. It starts
\* after the constructor and one initialize call for meshA (mesh data 1,
\* callback 1); the host then calls updateDG with any object, edits the
\* mesh, delivers notifications and sends draw requests for meshA.
ShaderInit ==
    /\ alive = TRUE
    /\ shaderPtr = "NULL"
    /\ callbackIds = <<1>>
    /\ callbacks = [c \in CbId |->
                       IF c = 1 THEN [node |-> "meshA", data |-> 1] ELSE NoCb]
    /\ customData = [m \in Mesh |-> IF m = "meshA" THEN 1 ELSE NULL]
    /\ heap = [d \in DataId |-> IF d = 1 THEN "live" ELSE "unalloc"]
    /\ dagPath = [d \in DataId |-> IF d = 1 THEN "meshA" ELSE "none"]
    /\ topoDirty = [d \in DataId |-> FALSE]
    /\ topology = [d \in DataId |-> NoTopology]
    /\ plan = [d \in DataId |-> NoPlan]
    /\ buffers = [d \in DataId |-> NoPlan]
    /\ src = [m \in Mesh |-> "ok"]
    /\ shLevel = 1
    /\ pc = "Idle"
    /\ NoFrame
    /\ crashed = FALSE
    /\ note = NoNote
    /\ build = [omp |-> FALSE, cuda |-> FALSE, cl |-> FALSE]
    /\ PluginNotLoaded

ShaderNext ==
    \/ \E k \in SrcKinds : HostEditMesh("meshA", k)
    \/ \E plug \in Plugs : HostNotifiesInFrame(1, TRUE, plug)
    \/ \E object \in Objects, level \in Levels : updateDG(object, level)
    \/ draw_Begin(<<"meshA">>)
    \/ draw_Fetch
    \/ draw_rebuildHbrMeshIfNeeded
    \/ draw_prepare
    \/ \E position \in BOOLEAN, ok \in BOOLEAN : draw_updateGeometry(position, ok)
    \/ draw_shaderDraw

ShaderSpec == ShaderInit /\ [][ShaderNext]_vars

C14_ShaderSetWhileDrawing ==
    pc \in Stages => shaderPtr # "NULL"

\* The index of the first item of a list that has no custom data, one past
\* the end of the list when every item has.
FirstNull(list) ==
    IF \E i \in 1..Len(list) : customData[list[i]] = NULL
    THEN Min({ i \in 1..Len(list) : customData[list[i]] = NULL })
    ELSE Len(list) + 1

\* The custom data of the first n items of a list, in list order.
DataOf(list, n) == [i \in 1..n |-> customData[list[i]]]

\* C15: draw processes the items in list order and stops at the first one
\* without custom data. While it runs, the items handed to the shader's draw
\* are those before the current one; it returns true exactly when no item
\* lacks custom data, after handing over all of them; and when it returns
\* false the items before the first null one, and no others, were put through
\* the rebuild check and handed over.
C15_StopsAtFirstNull ==
    /\ ret = "pending" =>
          /\ idx <= FirstNull(items)
          /\ handed = DataOf(items, idx - 1)
    /\ ret = "true" =>
          /\ FirstNull(items) = Len(items) + 1
          /\ handed = DataOf(items, Len(items))
          /\ rebuilt = { handed[i] : i \in 1..Len(handed) }
    /\ ret = "false" =>
          /\ FirstNull(items) <= Len(items)
          /\ handed = DataOf(items, FirstNull(items) - 1)
          /\ rebuilt = { handed[i] : i \in 1..Len(handed) }

\* C15's case: a request for two items returned false at the second, which
\* has no custom data, after the first was refined and handed over.
C15_Witness ==
    /\ ret = "false"
    /\ Len(items) = 2
    /\ FirstNull(items) = 2
    /\ Len(handed) = 1
    /\ shaderPtr = "shader"

\* C16: while the override lives, _callbackIds holds exactly the ids of the
\* callbacks registered with the host, each once, so that the destructor's
\* removeCallbacks leaves none of them subscribed.
C16_CallbackIdsAreTheRegistered ==
    /\ alive =>
          /\ { callbackIds[i] : i \in 1..Len(callbackIds) } =
                { c \in CbId : callbacks[c] # NoCb }
          /\ Cardinality({ callbackIds[i] : i \in 1..Len(callbackIds) }) =
                Len(callbackIds)
    /\ ~alive =>
          /\ callbackIds = <<>>
          /\ \A c \in CbId : callbacks[c] = NoCb

\* C16's case: initialize ran for both meshes, one registration succeeded
\* and one failed: one id is kept, of the one callback registered.
C16_Witness ==
    /\ alive
    /\ \A m \in Mesh : customData[m] # NULL
    /\ Len(callbackIds) = 1
    /\ callbacks[callbackIds[1]] # NoCb

\* The live OsdMeshData objects made for the mesh m.
LiveDataOf(m) == { d \in DataId : heap[d] = "live" /\ dagPath[d] = m }

\* C17: initialize makes a new OsdMeshData only when the item's custom data
\* is null and otherwise leaves the custom data as it is; in both cases it
\* registers one callback when the registration succeeds and none when it
\* fails, with the custom data held after the call as client data. So a mesh
\* never has more than one live OsdMeshData, and an evaluation of outMesh
\* delivered to any registered callback whose client data is live marks
\* that one object dirty.
C17_InitializeCreatesOnlyWhenNull ==
    [][ /\ \A m \in Mesh, ok \in BOOLEAN :
             initialize(m, ok) =>
                /\ IF customData[m] = NULL
                   THEN /\ customData'[m] # NULL
                        /\ heap[customData'[m]] = "unalloc"
                        /\ heap' = [heap EXCEPT ![customData'[m]] = "live"]
                        /\ \A n \in Mesh \ {m} : customData'[n] = customData[n]
                   ELSE UNCHANGED <<customData, heap, dagPath>>
                /\ IF ok
                   THEN /\ Len(callbackIds') = Len(callbackIds) + 1
                        /\ LET c == callbackIds'[Len(callbackIds')] IN
                             /\ callbacks[c] = NoCb
                             /\ callbacks' = [callbacks EXCEPT ![c] =
                                                [node |-> m, data |-> customData'[m]]]
                   ELSE UNCHANGED cbVars
        /\ \A m \in Mesh : Cardinality(LiveDataOf(m)) <= 1
        /\ \A c \in CbId :
             (callbacks[c] # NoCb /\ heap[callbacks[c].data] = "live") =>
                /\ customData[callbacks[c].node] = callbacks[c].data
                /\ HostNotifies(c, TRUE, "outMesh") => topoDirty'[callbacks[c].data]
      ]_vars

\* C17's case: initialize ran twice for one mesh; both callbacks have the
\* one OsdMeshData as client data, and an evaluation of outMesh delivered
\* through one of them has marked it dirty.
C17_Witness ==
    /\ callbacks[1] # NoCb
    /\ callbacks[2] # NoCb
    /\ callbacks[1].data = callbacks[2].data
    /\ heap[callbacks[1].data] = "live"
    /\ note.d = callbacks[1].data
    /\ note.eval /\ note.plug = "outMesh"
    /\ topoDirty[callbacks[1].data]

\* C18: updateDG called with the null object keeps the saved shader pointer
\* and asks the shader for no attribute update; called with any other object
\* it saves that object's hardware shader node pointer, null or not, and the
\* shader updates its attributes (here: reads its level) exactly when that
\* pointer is not null. Mesh data, callbacks and custom data are not touched.
C18_UpdateDGSavesShaderPointer ==
    [][ \A object \in Objects, level \in Levels :
           updateDG(object, level) =>
              /\ IF object = "kNullObj"
                 THEN shaderPtr' = shaderPtr /\ shLevel' = shLevel
                 ELSE /\ shaderPtr' = (IF object = "shaderNode" THEN "shader" ELSE "NULL")
                      /\ shLevel' = (IF shaderPtr' # "NULL" THEN level ELSE shLevel)
              /\ UNCHANGED <<cbVars, dataVars, meshVars>> ]_vars

\* C18's case: an updateDG with the shader node made the shader read level
\* 2, and a later updateDG with an object that has no hardware shader node
\* replaced the saved pointer by null without another attribute update.
C18_Witness ==
    /\ pc = "Idle"
    /\ ~crashed
    /\ shaderPtr = "NULL"
    /\ shLevel = 2

\* C19: over any sequence of loads and unloads every controller a load
\* allocated is deleted exactly once: none is deleted twice, and after an
\* unload none is left undeleted.
C19_EachControllerDeletedOnce ==
    /\ \A i \in DOMAIN objs : objs[i].state # "deletedTwice"
    /\ initStatus.status = "unloaded" =>
          \A i \in DOMAIN objs : objs[i].state = "deleted"

====
